---------------------------- MODULE Spec2Model ----------------------------
(***************************************************************************)
(* autogen-devsync: a developer agent and a reviewer agent take turns      *)
(* until the reviewer answers exactly "LGTM" or a message ceiling is hit.  *)
(*                                                                         *)
(*   LGTMTermination      src/autogen_setup.py  (termination predicate)    *)
(*   run_autogen_stream   src/streamlit_app.py  (stream reducer)           *)
(*                                                                         *)
(* Python strings are TLA+ strings; Len, SubSeq and \o act on them.        *)
(***************************************************************************)
EXTENDS Integers, Sequences, FiniteSets, TLC

VARIABLES
    \* ---- one LGTMTermination instance under arbitrary callers ----
    lgtm,        \* the instance: [agent_name, terminated]
    twin,        \* an instance constructed anew at the last reset()
    messages,    \* the transcript passed to the latest __call__
    result,      \* what the latest __call__ returned
    twinResult,  \* what the twin returned for the same transcript
    stops,       \* StopMessages returned since the last reset()
    resetWhen,   \* the flag when reset() was last called: "never", "set", "clear"
    op,          \* the latest operation: "init", "call" or "reset"
    \* ---- one invocation of run_autogen_stream ----
    pc,                               \* "streaming", "reducing" or "done"
    consumed,                         \* the events taken from the stream so far
    conversation_log_entries,
    last_agent_message_object,
    previous_agent_message_object,
    stop_reason,
    is_task_result,
    returned,                         \* the tuple returned, once done
    \* ---- the team: RoundRobinGroupChat with text_termination ----
    team_pc,           \* "idle", "ready", "running" or "stopped"
    runs,              \* runs started on the team so far
    text_termination,  \* the state of LGTMTermination | MaxMessageTermination
    turn,              \* index of the participant who speaks next
    fed,               \* messages handed to the termination condition this run
    last_fed,          \* the latest message handed to it
    sub_results,       \* what each sub-condition returned for it
    team_stop,         \* what the combined condition returned for it
    prior,             \* how each earlier run ended: "approval", "ceiling" or "failed"
    \* ---- the session of the page: st.session_state and the run handler ----
    run_state,               \* "none", "running", "completed" or "failed"
    outcomes,                \* how each finished run ended: "completed" or "failed"
    final_response_text,
    stop_reason_text,
    final_source_text,
    conversation_log_list,
    last_run_error,
    \* ---- start-up: the import of autogen_setup ----
    setup_pc,                \* "load_config", "client_dev", "client_review", "construct",
                             \* "constructed", "imported" or "exited"
    config_file,             \* what models.yaml holds
    environ,                 \* the API-key variables of the environment
    client_raises,           \* the agents whose client constructor raises
    validated_configs,       \* what load_config returned
    stdout,                  \* the diagnostics printed
    exit_status,             \* the status passed to sys.exit, or -1
    AUTOGEN_SETUP_AVAILABLE

predVars == <<lgtm, twin, messages, result, twinResult, stops, resetWhen, op>>

redVars == <<pc, consumed, conversation_log_entries, last_agent_message_object,
             previous_agent_message_object, stop_reason, is_task_result, returned>>

teamVars == <<team_pc, runs, text_termination, turn, fed, last_fed, sub_results, team_stop,
             prior>>

sessVars == <<run_state, outcomes, final_response_text, stop_reason_text, final_source_text,
             conversation_log_list, last_run_error>>

startVars == <<setup_pc, config_file, environ, client_raises, validated_configs, stdout,
              exit_status, AUTOGEN_SETUP_AVAILABLE>>

vars == <<predVars, redVars, teamVars, sessVars, startVars>>

-----------------------------------------------------------------------------
(* Python values.  An attribute of an object is absent, None, a str, or    *)
(* some other object (of which only the class name and str() are kept).    *)

Absent   == [tag |-> "absent", text |-> "",  type |-> ""]
None     == [tag |-> "none",   text |-> "",  type |-> "NoneType"]
Str(s)   == [tag |-> "str",    text |-> s,   type |-> "str"]
Obj(s)   == [tag |-> "obj",    text |-> s,   type |-> "list"]

\* hasattr(o, a), given the attribute's slot
HasAttr(slot) == slot.tag # "absent"

\* getattr(o, a, default), given the attribute's slot
GetAttr(slot, default) == IF slot.tag = "absent" THEN default ELSE slot

\* isinstance(v, str)
IsStr(v) == v.tag = "str"

\* str(v): the text of a str, "None" for None, the repr of another object
PyStr(v) == IF v.tag = "none" THEN "None" ELSE v.text

\* bool(v) of a str or None
Truthy(v) == v.tag = "obj" \/ (v.tag = "str" /\ v.text # "")

-----------------------------------------------------------------------------
(* re.fullmatch(r"\s*LGTM\s*", s, re.IGNORECASE)                            *)

Whitespace == {" ", "\t", "\n", "\r", "\f"}

UpperLetters == "ABCDEFGHIJKLMNOPQRSTUVWXYZ"
LowerLetters == "abcdefghijklmnopqrstuvwxyz"

FoldTable ==
    [c \in { SubSeq(UpperLetters, k, k) : k \in 1..26 } |->
        LET k == CHOOSE k \in 1..26 : SubSeq(UpperLetters, k, k) = c
        IN  SubSeq(LowerLetters, k, k)]

\* the case fold of one character
Fold(c) == IF c \in DOMAIN FoldTable THEN FoldTable[c] ELSE c

\* \s* matches the whole of s
AllSpace(s) == \A k \in 1..Len(s) : SubSeq(s, k, k) \in Whitespace

\* the literal lit matches the whole of s under re.IGNORECASE
MatchLiteral(lit, s) ==
    /\ Len(s) = Len(lit)
    /\ \A k \in 1..Len(lit) : Fold(SubSeq(s, k, k)) = Fold(SubSeq(lit, k, k))

FullMatchLGTM_Prefix(s) ==
    \E i \in 0..Len(s) :
        /\ i + 4 <= Len(s)
        /\ AllSpace(SubSeq(s, 1, i))
        /\ MatchLiteral("LGTM", SubSeq(s, i + 1, i + 4))

FullMatchLGTM(s) ==
    \E i \in 0..Len(s) :
        /\ i + 4 <= Len(s)
        /\ AllSpace(SubSeq(s, 1, i))
        /\ MatchLiteral("LGTM", SubSeq(s, i + 1, i + 4))
        /\ AllSpace(SubSeq(s, i + 5, Len(s)))

-----------------------------------------------------------------------------
(* LGTMTermination                                                         *)

NoStop == [kind |-> "None", content |-> "", source |-> ""]

StopMessage(content, source) ==
    [kind |-> "StopMessage", content |-> content, source |-> source]

IsStop(r) == r.kind = "StopMessage"

\* __init__(agent_name)
LGTMInit(agent_name) == [agent_name |-> agent_name, terminated |-> FALSE]

\* source_name = getattr(last_msg, "name", getattr(last_msg, "source", None))
SourceName(m) == GetAttr(m.name, GetAttr(m.source, None))

\* msg_content = getattr(last_msg, "content", None)
MsgContent(m) == GetAttr(m.content, None)

\* the condition of the if at lines 46-50
LGTMConditionMet(self, last_msg) ==
    /\ SourceName(last_msg) = Str(self.agent_name)
    /\ IsStr(MsgContent(last_msg))
    /\ FullMatchLGTM(MsgContent(last_msg).text)

LGTMCall_NoLatch(self, msgs) ==
    IF msgs # <<>> /\ LGTMConditionMet(self, msgs[Len(msgs)])
    THEN [self |-> [self EXCEPT !.terminated = TRUE],
          ret  |-> StopMessage("LGTM received from " \o self.agent_name \o ".",
                               "LGTMTermination")]
    ELSE [self |-> self, ret |-> NoStop]

LGTMCall_AnyMessage(self, msgs) ==
    IF self.terminated
    THEN [self |-> self, ret |-> NoStop]
    ELSE IF \E k \in 1..Len(msgs) : LGTMConditionMet(self, msgs[k])
    THEN [self |-> [self EXCEPT !.terminated = TRUE],
          ret  |-> StopMessage("LGTM received from " \o self.agent_name \o ".",
                               "LGTMTermination")]
    ELSE [self |-> self, ret |-> NoStop]

\* __call__(messages): the instance afterwards and the value returned
LGTMCall(self, msgs) ==
    IF self.terminated
    THEN [self |-> self, ret |-> NoStop]
    ELSE IF msgs # <<>> /\ LGTMConditionMet(self, msgs[Len(msgs)])
    THEN [self |-> [self EXCEPT !.terminated = TRUE],
          ret  |-> StopMessage("LGTM received from " \o self.agent_name \o ".",
                               "LGTMTermination")]
    ELSE [self |-> self, ret |-> NoStop]

LGTMReset_Keep(self) == self

\* reset()
LGTMReset(self) == [self EXCEPT !.terminated = FALSE]

-----------------------------------------------------------------------------
(* text_termination = LGTMTermination("review_agent") | MaxMessageTermination(20) *)
(* The count condition and the | combinator belong to the conversation      *)
(* runtime; they are modelled from their contract.                          *)

MaxMessages == 20

\* MaxMessageTermination(n)
MaxInit(n) == [max_messages |-> n, message_count |-> 0]

\* the count condition evaluated on the new messages
MaxCall(self, msgs) ==
    LET count == self.message_count + Len(msgs)
    IN  [self |-> [self EXCEPT !.message_count = count],
         ret  |-> IF count >= self.max_messages
                  THEN StopMessage("Maximum number of messages reached",
                                   "MaxMessageTermination")
                  ELSE NoStop]

MaxReset(self) == [self EXCEPT !.message_count = 0]

\* A | B evaluated: both sub-conditions are evaluated, the first stop is returned
OrCall(self, msgs) ==
    LET a == LGTMCall(self.lgtm, msgs)
        b == MaxCall(self.max, msgs)
    IN  [self |-> [lgtm |-> a.self, max |-> b.self],
         rets |-> <<a.ret, b.ret>>,
         ret  |-> IF IsStop(a.ret) THEN a.ret ELSE b.ret]

\* reset() of A | B: each sub-condition is reset
OrReset(self) == [lgtm |-> LGTMReset(self.lgtm), max |-> MaxReset(self.max)]

TextTermination_WatchesDeveloper ==
    [lgtm |-> LGTMInit("dev_agent"), max |-> MaxInit(MaxMessages)]

\* text_termination as line 157 constructs it
TextTermination ==
    [lgtm |-> LGTMInit("review_agent"), max |-> MaxInit(MaxMessages)]

\* the participants of the team, in speaking order (line 160)
Participants == <<"dev_agent", "review_agent">>

-----------------------------------------------------------------------------
(* Start-up: load_config and make_model_client_pydantic                    *)

CONFIG_FILE == "models.yaml"

\* one agent's entry of the mapping the file parses to; an optional field is
\* a sequence that is empty when the field is not given
AgentEntry(model, base_url, timeout, model_info) ==
    [model |-> model, base_url |-> base_url, timeout |-> timeout, model_info |-> model_info]

\* what the file holds: kind is "missing", "unreadable", "malformed", "empty",
\* "scalar" (YAML that is no mapping) or "mapping"; an agent's key is a sequence
\* that is empty when the mapping lacks the key
ConfigFile(kind, dev_agent, review_agent) ==
    [kind |-> kind, dev_agent |-> dev_agent, review_agent |-> review_agent]

\* HttpUrl accepts the text: an http or https scheme and something after it
IsHttpUrl(s) ==
    \/ Len(s) > 7 /\ SubSeq(s, 1, 7) = "http://"
    \/ Len(s) > 8 /\ SubSeq(s, 1, 8) = "https://"

\* the errors of validating one AgentClientConfig, each a field and a message
AgentErrors(entry) ==
    (IF entry.model = <<>> THEN << <<"model", "Field required">> >> ELSE <<>>)
    \o (IF entry.base_url = <<>> THEN << <<"base_url", "Field required">> >>
        ELSE IF ~IsHttpUrl(entry.base_url[1])
        THEN << <<"base_url", "Input should be a valid URL">> >>
        ELSE <<>>)
    \o (IF entry.timeout = <<>> THEN << <<"timeout", "Field required">> >>
        ELSE IF ~(entry.timeout[1] > 0)
        THEN << <<"timeout", "Input should be greater than 0">> >>
        ELSE <<>>)
    \o (IF entry.model_info = <<>> THEN << <<"model_info", "Field required">> >> ELSE <<>>)

\* the errors of one agent's key, with loc joined by " -> "
KeyErrors(key, value) ==
    IF value = <<>> THEN << <<key, "Field required">> >>
    ELSE LET errs == AgentErrors(value[1])
         IN  [k \in 1..Len(errs) |-> <<key \o " -> " \o errs[k][1], errs[k][2]>>]

\* e.errors() of AppConfig(**raw_configs)
ValidationErrors(file) ==
    KeyErrors("dev_agent", file.dev_agent) \o KeyErrors("review_agent", file.review_agent)

NoConfigs == [dev_agent |-> <<>>, review_agent |-> <<>>]

\* what a call that ended in sys.exit(1) leaves: the lines printed and the status
Exits(lines) == [ok |-> FALSE, value |-> NoConfigs, printed |-> lines, status |-> 1]

Returns(value) == [ok |-> TRUE, value |-> value, printed |-> <<>>, status |-> -1]

load_config_EmptyAccepted(path, file) ==
    IF file.kind = "missing"
    THEN Exits(<< "Error: Configuration file '" \o path \o "' not found." >>)
    ELSE IF file.kind = "unreadable"
    THEN Exits(<< "An unexpected error occurred loading config file '" \o path \o "'" >>)
    ELSE IF file.kind = "malformed"
    THEN Exits(<< "Error parsing YAML file '" \o path \o "'" >>)
    ELSE IF file.kind = "scalar"
    THEN Exits(<< "An unexpected error occurred loading config file '" \o path \o "'" >>)
    ELSE IF file.kind = "mapping" /\ ValidationErrors(file) # <<>>
    THEN LET errs == ValidationErrors(file)
         IN  Exits(<< "Error: Configuration validation failed for '" \o path \o "':" >>
                   \o [k \in 1..Len(errs) |->
                          "  - Field '" \o errs[k][1] \o "': " \o errs[k][2]])
    ELSE Returns([dev_agent |-> file.dev_agent, review_agent |-> file.review_agent])

\* load_config(path), given what the file at path holds
load_config(path, file) ==
    IF file.kind = "missing"
    THEN Exits(<< "Error: Configuration file '" \o path \o "' not found." >>)
    ELSE IF file.kind = "unreadable"
    THEN Exits(<< "An unexpected error occurred loading config file '" \o path \o "'" >>)
    ELSE IF file.kind = "malformed"
    THEN Exits(<< "Error parsing YAML file '" \o path \o "'" >>)
    ELSE IF file.kind = "empty"
    THEN Exits(<< "Error: Configuration file '" \o path \o "' is empty." >>)
    ELSE IF file.kind = "scalar"
    THEN Exits(<< "An unexpected error occurred loading config file '" \o path \o "'" >>)
    ELSE IF ValidationErrors(file) # <<>>
    THEN LET errs == ValidationErrors(file)
         IN  Exits(<< "Error: Configuration validation failed for '" \o path \o "':" >>
                   \o [k \in 1..Len(errs) |->
                          "  - Field '" \o errs[k][1] \o "': " \o errs[k][2]])
    ELSE Returns([dev_agent |-> file.dev_agent, review_agent |-> file.review_agent])

UpperTable ==
    [c \in { SubSeq(LowerLetters, k, k) : k \in 1..26 } |->
        LET k == CHOOSE k \in 1..26 : SubSeq(LowerLetters, k, k) = c
        IN  SubSeq(UpperLetters, k, k)]

\* s.upper()
RECURSIVE Upper(_)
Upper(s) ==
    IF s = "" THEN ""
    ELSE (IF SubSeq(s, 1, 1) \in DOMAIN UpperTable
          THEN UpperTable[SubSeq(s, 1, 1)] ELSE SubSeq(s, 1, 1))
         \o Upper(SubSeq(s, 2, Len(s)))

\* env_var_name = f"{agent_key.upper()}_API_KEY"
EnvVarName(agent_key) == Upper(agent_key) \o "_API_KEY"

\* os.environ.get(name)
EnvironGet(env, name) == IF name \in DOMAIN env THEN GetAttr(env[name], None) ELSE None

\* make_model_client_pydantic(agent_key, agent_config), given the environment
\* and whether the client's constructor raises
make_model_client_pydantic(agent_key, env, raises) ==
    LET env_var_name == EnvVarName(agent_key)
        api_key_from_env == EnvironGet(env, env_var_name)
    IN  IF ~Truthy(api_key_from_env)
        THEN Exits(<< "Error: API Key for '" \o agent_key
                      \o "' not found. Set the environment variable '"
                      \o env_var_name \o "'." >>)
        ELSE IF raises
        THEN Exits(<< "Error creating model client instance for '" \o agent_key \o "'" >>)
        ELSE Returns(NoConfigs)

-----------------------------------------------------------------------------
(* run_autogen_stream: the body of the loop and the selection after it     *)

\* a message or event object: its attributes, and its class name
Event(cls, name, source, content, stop) ==
    [name |-> name, source |-> source, content |-> content,
     stop_reason |-> stop, role |-> Absent, cls |-> cls]

\* the Python None held by a slot that holds no message
NoMessage == Event("NoneType", Absent, Absent, Absent, Absent)

\* sub in s
Contains(sub, s) ==
    \E i \in 1..(Len(s) - Len(sub) + 1) : SubSeq(s, i, i + Len(sub) - 1) = sub

\* s.replace(a, b) for a single character a
RECURSIVE Replace(_, _, _)
Replace(s, a, b) ==
    IF s = "" THEN ""
    ELSE (IF SubSeq(s, 1, 1) = a THEN b ELSE SubSeq(s, 1, 1))
         \o Replace(SubSeq(s, 2, Len(s)), a, b)

\* The backquote, which a TLA+ string cannot hold: ^ stands for it, and no
\* input uses ^ for anything else.
Backtick == "^"

Fence == Backtick \o Backtick \o Backtick

\* message_content.replace("<", "<").replace(">", ">")
Escaped(s) == Replace(Replace(s, "<", "<"), ">", ">")

\* source_name = getattr(message, 'source', getattr(message, 'name', 'System'))
LogSourceName(m) == GetAttr(m.source, GetAttr(m.name, Str("System")))

\* is_agent_source
IsAgentSource(m) ==
    LogSourceName(m) \notin { Str("user"), Str("System"), Str("UserProxyAgent") }

\* the admission the contract describes: textual content only
IsAgentMessageWithContent_TextOnly(m) ==
    /\ ~HasAttr(m.stop_reason)
    /\ HasAttr(m.content)
    /\ IsAgentSource(m)
    /\ IsStr(m.content)

\* is_agent_message_with_content at the end of the loop body
IsAgentMessageWithContent(m) ==
    /\ ~HasAttr(m.stop_reason)
    /\ HasAttr(m.content)
    /\ IsAgentSource(m)

LogEntry_DropsUnrecognised(m) ==
    LET src == PyStr(LogSourceName(m))
    IN  IF HasAttr(m.stop_reason)
        THEN "**System:** Task finished. Stop Reason: " \o PyStr(m.stop_reason)
        ELSE IF HasAttr(m.content)
        THEN IF IsStr(m.content)
             THEN "**" \o src \o ":**\n" \o Escaped(m.content.text)
             ELSE ""
        ELSE ""

\* log_entry as the loop body leaves it
LogEntry(m) ==
    LET src == PyStr(LogSourceName(m))
    IN  IF HasAttr(m.stop_reason)
        THEN "**System:** Task finished. Stop Reason: " \o PyStr(m.stop_reason)
        ELSE IF HasAttr(m.content)
        THEN IF IsStr(m.content)
             THEN LET escaped_content == Escaped(m.content.text)
                  IN  IF Contains(Fence, escaped_content)
                      THEN "**" \o src \o ":**\n" \o Fence \o "\n" \o escaped_content
                                \o "\n" \o Fence
                      ELSE "**" \o src \o ":**\n" \o escaped_content
             ELSE IF m.content.tag # "none"
             THEN "**" \o src \o ":** " \o Backtick \o "(" \o m.content.type
                       \o " content)" \o Backtick
             ELSE "**" \o src \o ":** " \o Backtick \o "(Role: "
                       \o PyStr(GetAttr(m.role, None)) \o " - Content is None)" \o Backtick
        ELSE "**" \o src \o ":** " \o Backtick \o "(" \o m.cls \o ")" \o Backtick

StopReasonAfter_NoDefault(m, before) ==
    IF HasAttr(m.stop_reason) THEN PyStr(m.stop_reason) ELSE before

\* stop_reason after the loop body: message_stop_reason or "Completed"
StopReasonAfter(m, before) ==
    IF HasAttr(m.stop_reason)
    THEN IF Truthy(m.stop_reason) THEN m.stop_reason.text ELSE "Completed"
    ELSE before

SlotsAfter_NoDemotion(m, prev, last) ==
    IF IsAgentMessageWithContent(m)
    THEN [previous |-> prev, last |-> m]
    ELSE [previous |-> prev, last |-> last]

\* the two slots after the loop body (lines 115-117)
SlotsAfter(m, prev, last) ==
    IF IsAgentMessageWithContent(m)
    THEN [previous |-> last, last |-> m]
    ELSE [previous |-> prev, last |-> last]

LoopPc_NoBreak(task_result) == "streaming"

\* where the loop goes after its body: break on a result (lines 119-120)
LoopPc(task_result) == IF task_result THEN "reducing" ELSE "streaming"

ExhaustedPc_AwaitsResult(task_result) == IF task_result THEN "reducing" ELSE "streaming"

\* where control goes when the stream is exhausted: past the loop (line 82)
ExhaustedPc(task_result) == "reducing"

SelectFinal_AlwaysLast(prev, last, reason) == last

SelectFinal_PreferPrevious(prev, last, reason) ==
    IF prev # NoMessage THEN prev ELSE last

\* final_message_to_display (lines 122-128); NoMessage when none is chosen
SelectFinal(prev, last, reason) ==
    LET lgtm_termination_occurred == Contains("LGTM received", reason)
    IN  IF lgtm_termination_occurred /\ prev # NoMessage THEN prev
        ELSE IF last # NoMessage THEN last
        ELSE NoMessage

FinalWhenNone_AlwaysSystem(seen) ==
    [text   |-> "[No agent response recorded before termination]",
     source |-> Str("System")]

\* the else branch at lines 139-142
FinalWhenNone(seen) ==
    [text   |-> "[No agent response recorded before termination]",
     source |-> IF seen THEN Str("System") ELSE Str("Unknown")]

\* final_agent_message_content and final_agent_name (lines 133-142)
FinalOf(final_message_to_display, seen) ==
    IF final_message_to_display # NoMessage
    THEN [text   |-> PyStr(GetAttr(final_message_to_display.content,
                                   Str("[No content found in selected message]"))),
          source |-> GetAttr(final_message_to_display.source,
                             GetAttr(final_message_to_display.name, Str("Unknown")))]
    ELSE FinalWhenNone(seen)

-----------------------------------------------------------------------------
(* Messages and transcripts handed to the predicate                        *)

\* a chat message as the predicate sees it
Msg(name, source, content) == Event("TextMessage", name, source, content, Absent)

MaxLen == 2   \* messages in one transcript

WatchedNames == {"review_agent", "dev_agent"}

\* (name, source) of a message
Identities ==
    { <<Absent, Str("review_agent")>>,
      <<Absent, Str("dev_agent")>>,
      <<Str("review_agent"), Absent>>,
      <<Str("review_agent"), Str("dev_agent")>>,
      <<Str("dev_agent"), Str("review_agent")>>,
      <<None, Str("review_agent")>>,
      <<Absent, Absent>> }

Pads == {"", " ", "\t\n "}

PaddedTexts == { p \o "lGtm" \o q : p \in Pads, q \in Pads }

Texts ==
    PaddedTexts \cup
    { "LGTM", "lgtm", "  LgTm  ", "LGTM!", "lgtm now", "  lgtm  extra",
      "LGTM please", "Looks good, LGTM", "", "LGT", " L GTM", "draft v1" }

Contents == { Str(t) : t \in Texts } \cup { None, Absent, Obj("[FunctionCall]") }

\* every content from either agent, and every identity with a few contents
Messages ==
    { Msg(Absent, Str(a), c) : a \in {"review_agent", "dev_agent"}, c \in Contents } \cup
    { Msg(i[1], i[2], c) : i \in Identities,
                           c \in { Str(" lgtm\n"), Str("draft v1"), None } }

\* what may precede the last message of a transcript
Earlier ==
    { Msg(Absent, Str("review_agent"), Str("LGTM")),
      Msg(Absent, Str("dev_agent"), Str("draft v1")) }

RECURSIVE SeqsUpTo(_, _)
SeqsUpTo(S, n) ==
    IF n = 0 THEN { <<>> }
    ELSE LET shorter == SeqsUpTo(S, n - 1)
         IN  shorter \cup { Append(q, x) : q \in shorter, x \in S }

Transcripts ==
    { <<>> } \cup
    { Append(pre, m) : pre \in SeqsUpTo(Earlier, MaxLen - 1), m \in Messages }

Min(a, b) == IF a < b THEN a ELSE b

-----------------------------------------------------------------------------
(* Events of one run's stream                                              *)

MaxEvents == 4   \* messages and events of one stream before its result

TextMessage(source, text) == Event("TextMessage", Absent, Str(source), Str(text), Absent)

TaskResult(stop) == Event("TaskResult", Absent, Absent, Absent, stop)

StreamEvents ==
    { TextMessage("dev_agent", "draft v1"),
      TextMessage("review_agent", "fix X"),
      TextMessage("dev_agent", "draft v2"),
      TextMessage("review_agent", " LGTM "),
      TextMessage("user", "task"),
      TextMessage("UserProxyAgent", "ok"),
      \* a message that has a name and no source, with fenced code
      Event("TextMessage", Str("dev_agent"), Absent,
            Str(Fence \o "x = 1 < 2" \o Fence), Absent),
      \* content that is not text, and content that is None
      Event("ToolCallRequestEvent", Absent, Str("dev_agent"), Obj("[FunctionCall]"), Absent),
      Event("Message", Absent, Str("review_agent"), None, Absent),
      \* neither content nor stop_reason
      Event("object", Absent, Absent, Absent, Absent) }

ResultEvents ==
    { TaskResult(Str("LGTM received from review_agent.")),
      TaskResult(Str("MaxMessageTermination")),
      TaskResult(Str("")),
      TaskResult(None) }

NoReturn ==
    [log |-> <<>>, final_text |-> "", final_source |-> Absent, stop_reason |-> ""]

-----------------------------------------------------------------------------
(* Parts of the state a specification leaves alone                         *)

PredIdle ==
    /\ lgtm = LGTMInit("review_agent")
    /\ twin = LGTMInit("review_agent")
    /\ messages = <<>>
    /\ result = NoStop
    /\ twinResult = NoStop
    /\ stops = 0
    /\ resetWhen = "never"
    /\ op = "init"

\* the locals of run_autogen_stream as lines 72-78 set them
RedLocals ==
    /\ consumed = <<>>
    /\ conversation_log_entries = <<>>
    /\ last_agent_message_object = NoMessage
    /\ previous_agent_message_object = NoMessage
    /\ stop_reason = "Unknown"
    /\ is_task_result = FALSE
    /\ returned = NoReturn

RedIdle == pc = "idle" /\ RedLocals

NoFed == Event("NoneType", Absent, Absent, Absent, Absent)

\* the team as lines 157-162 leave it
TeamConstructed ==
    /\ team_pc = "idle"
    /\ runs = 0
    /\ text_termination = TextTermination
    /\ turn = 1
    /\ fed = 0
    /\ last_fed = NoFed
    /\ sub_results = <<NoStop, NoStop>>
    /\ team_stop = NoStop
    /\ prior = <<>>

\* st.session_state as lines 37-41 leave it on the first pass of the script
SessionDefaults ==
    [final_response_text   |-> "",
     stop_reason_text      |-> "",
     final_source_text     |-> Str(""),
     conversation_log_list |-> <<>>,
     last_run_error        |-> None]

\* the session holds the values of the record
SessionIs(st) ==
    /\ final_response_text = st.final_response_text
    /\ stop_reason_text = st.stop_reason_text
    /\ final_source_text = st.final_source_text
    /\ conversation_log_list = st.conversation_log_list
    /\ last_run_error = st.last_run_error

SessIdle == run_state = "none" /\ outcomes = <<>> /\ SessionIs(SessionDefaults)

ValidEntry == AgentEntry(<<"gpt-4o">>, <<"https://api.example.com/v1">>, <<30>>, <<"info">>)

ValidFile == ConfigFile("mapping", <<ValidEntry>>, <<ValidEntry>>)

KeysSet == [DEV_AGENT_API_KEY |-> Str("sk-dev"), REVIEW_AGENT_API_KEY |-> Str("sk-review")]

\* autogen_setup was imported without an exit: the team exists
Started ==
    /\ setup_pc = "imported"
    /\ config_file = ValidFile
    /\ environ = KeysSet
    /\ client_raises = {}
    /\ validated_configs = [dev_agent |-> <<ValidEntry>>, review_agent |-> <<ValidEntry>>]
    /\ stdout = <<>>
    /\ exit_status = -1
    /\ AUTOGEN_SETUP_AVAILABLE = TRUE

-----------------------------------------------------------------------------
(* The predicate under arbitrary callers                                   *)

PredInit ==
    /\ \E a \in WatchedNames : lgtm = LGTMInit(a) /\ twin = LGTMInit(a)
    /\ messages = <<>>
    /\ result = NoStop
    /\ twinResult = NoStop
    /\ stops = 0
    /\ resetWhen = "never"
    /\ op = "init"
    /\ RedIdle
    /\ TeamConstructed
    /\ SessIdle
    /\ Started

PredCall(msgs) ==
    LET r == LGTMCall(lgtm, msgs)
        t == LGTMCall(twin, msgs)
    IN  /\ lgtm' = r.self
        /\ result' = r.ret
        /\ twin' = t.self
        /\ twinResult' = t.ret
        /\ messages' = msgs
        /\ stops' = IF r.ret.kind = "StopMessage" THEN Min(stops + 1, 2) ELSE stops
        /\ op' = "call"
        /\ UNCHANGED resetWhen
        /\ UNCHANGED <<redVars, teamVars, sessVars, startVars>>

PredReset ==
    /\ lgtm' = LGTMReset(lgtm)
    /\ twin' = LGTMInit(lgtm.agent_name)
    /\ stops' = 0
    /\ resetWhen' = IF lgtm.terminated THEN "set" ELSE "clear"
    /\ op' = "reset"
    /\ UNCHANGED <<messages, result, twinResult>>
    /\ UNCHANGED <<redVars, teamVars, sessVars, startVars>>

PredNext ==
    \/ \E msgs \in Transcripts : PredCall(msgs)
    \/ PredReset

SpecPredicate == PredInit /\ [][PredNext]_vars

-----------------------------------------------------------------------------
(* One invocation of run_autogen_stream over an arbitrary stream           *)

RedInit ==
    pc = "streaming" /\ RedLocals /\ PredIdle /\ TeamConstructed /\ SessIdle /\ Started

\* one pass of the loop body (lines 82-120) over the event the stream yields
Consume(message) ==
    /\ pc = "streaming"
    /\ HasAttr(message.stop_reason) \/ Len(consumed) < MaxEvents
    /\ consumed' = Append(consumed, message)
    /\ is_task_result' = (is_task_result \/ HasAttr(message.stop_reason))
    /\ stop_reason' = StopReasonAfter(message, stop_reason)
    /\ conversation_log_entries' =
          IF LogEntry(message) # ""
          THEN Append(conversation_log_entries, LogEntry(message))
          ELSE conversation_log_entries
    /\ LET slots == SlotsAfter(message, previous_agent_message_object,
                                last_agent_message_object)
       IN  /\ previous_agent_message_object' = slots.previous
           /\ last_agent_message_object' = slots.last
    /\ pc' = LoopPc(is_task_result')
    /\ UNCHANGED returned
    /\ UNCHANGED <<predVars, teamVars, sessVars, startVars>>

\* the stream is exhausted without a result event
StreamEnd ==
    /\ pc = "streaming"
    /\ pc' = ExhaustedPc(is_task_result)
    /\ UNCHANGED <<consumed, conversation_log_entries, last_agent_message_object,
                   previous_agent_message_object, stop_reason, is_task_result, returned>>
    /\ UNCHANGED <<predVars, teamVars, sessVars, startVars>>

\* lines 122-148: choose the final message and return
Reduce ==
    /\ pc = "reducing"
    /\ LET final_message_to_display ==
               SelectFinal(previous_agent_message_object, last_agent_message_object,
                           stop_reason)
           final == FinalOf(final_message_to_display, is_task_result)
       IN  returned' = [log          |-> conversation_log_entries,
                        final_text   |-> final.text,
                        final_source |-> final.source,
                        stop_reason  |-> stop_reason]
    /\ pc' = "done"
    /\ UNCHANGED <<consumed, conversation_log_entries, last_agent_message_object,
                   previous_agent_message_object, stop_reason, is_task_result>>
    /\ UNCHANGED <<predVars, teamVars, sessVars, startVars>>

RedNext ==
    \/ \E message \in StreamEvents \cup ResultEvents : Consume(message)
    \/ StreamEnd
    \/ Reduce

SpecReducer == RedInit /\ [][RedNext]_vars

\* The stream is finite: unless a result ends the loop first, its exhaustion
\* comes; and the code after the loop runs to its return without waiting.
SpecReducerLive == SpecReducer /\ WF_vars(StreamEnd) /\ WF_vars(Reduce)

-----------------------------------------------------------------------------
(* The team: the runtime hands each new message to text_termination        *)

MaxRuns == 3   \* runs on the one team

\* what an agent may answer on its turn
AgentTexts ==
    [dev_agent    |-> {"draft v1", "draft v2", "LGTM"},
     review_agent |-> {"fix X", "LGTM please", " LGTM ", "lgtm"}]

TeamInit == TeamConstructed /\ PredIdle /\ RedIdle /\ SessIdle /\ Started

\* the new message is appended and the termination condition evaluated on it
Feed(message) ==
    LET r == OrCall(text_termination, <<message>>)
    IN  /\ text_termination' = r.self
        /\ sub_results' = r.rets
        /\ team_stop' = r.ret
        /\ last_fed' = message
        /\ fed' = fed + 1
        /\ team_pc' = IF IsStop(r.ret) THEN "stopped" ELSE "running"

\* how the run that just ended did so
EndedAs ==
    IF team_pc = "failed" THEN "failed"
    ELSE IF IsStop(sub_results[1]) THEN "approval"
    ELSE "ceiling"

ResetTeam_KeepsCondition ==
    /\ runs' = runs + 1
    /\ UNCHANGED text_termination
    /\ turn' = 1
    /\ fed' = 0
    /\ last_fed' = NoFed
    /\ sub_results' = <<NoStop, NoStop>>
    /\ team_stop' = NoStop
    /\ team_pc' = "ready"

\* await team_instance.reset(): the termination condition and the turn order
\* start over
ResetTeam ==
    /\ runs' = runs + 1
    /\ text_termination' = OrReset(text_termination)
    /\ turn' = 1
    /\ fed' = 0
    /\ last_fed' = NoFed
    /\ sub_results' = <<NoStop, NoStop>>
    /\ team_stop' = NoStop
    /\ team_pc' = "ready"

\* run_autogen_stream begins: the team is reset before the stream is opened
TeamReset ==
    /\ team_pc \in {"idle", "stopped", "failed"}
    /\ runs < MaxRuns
    /\ ResetTeam
    /\ prior' = IF team_pc = "idle" THEN prior ELSE Append(prior, EndedAs)
    /\ UNCHANGED <<predVars, redVars, sessVars, startVars>>

\* run_stream(task): the task enters the transcript as the user's message
TeamStart ==
    /\ team_pc = "ready"
    /\ Feed(TextMessage("user", "task"))
    /\ UNCHANGED <<turn, runs, prior>>
    /\ UNCHANGED <<predVars, redVars, sessVars, startVars>>

\* the next participant answers
TeamTurn ==
    /\ team_pc = "running"
    /\ \E text \in AgentTexts[Participants[turn]] :
          Feed(TextMessage(Participants[turn], text))
    /\ turn' = (turn % Len(Participants)) + 1
    /\ UNCHANGED <<runs, prior>>
    /\ UNCHANGED <<predVars, redVars, sessVars, startVars>>

\* the stream raises while the run is under way: the run is over, and the
\* termination condition stays as the run left it
TeamFails ==
    /\ team_pc \in {"ready", "running"}
    /\ team_pc' = "failed"
    /\ UNCHANGED <<runs, text_termination, turn, fed, last_fed, sub_results, team_stop, prior>>
    /\ UNCHANGED <<predVars, redVars, sessVars, startVars>>

TeamNext == TeamReset \/ TeamStart \/ TeamTurn \/ TeamFails

SpecTeam == TeamInit /\ [][TeamNext]_vars

-----------------------------------------------------------------------------
(* What the contract says, stated without the regular expression           *)

Last(q) == q[Len(q)]

RECURSIVE LStrip(_)
LStrip(t) ==
    IF Len(t) > 0 /\ SubSeq(t, 1, 1) \in Whitespace
    THEN LStrip(SubSeq(t, 2, Len(t))) ELSE t

RECURSIVE RStrip(_)
RStrip(t) ==
    IF Len(t) > 0 /\ SubSeq(t, Len(t), Len(t)) \in Whitespace
    THEN RStrip(SubSeq(t, 1, Len(t) - 1)) ELSE t

\* the text with its surrounding whitespace trimmed
Trimmed(t) == RStrip(LStrip(t))

\* the four letters L, G, T, M in either case, and nothing else
IsLGTMWord(t) ==
    /\ Len(t) = 4
    /\ SubSeq(t, 1, 1) \in {"L", "l"}
    /\ SubSeq(t, 2, 2) \in {"G", "g"}
    /\ SubSeq(t, 3, 3) \in {"T", "t"}
    /\ SubSeq(t, 4, 4) \in {"M", "m"}

\* the content is text that is exactly the approval signal
ExactApproval(content) == content.tag = "str" /\ IsLGTMWord(Trimmed(content.text))

\* the message's identity (its name if it has one, else its source) is a
FromAgent(m, a) ==
    IF m.name.tag # "absent" THEN m.name = Str(a) ELSE m.source = Str(a)

\* an evaluation of msgs by a predicate watching a must not trigger
NonTriggering(msgs, a) ==
    \/ msgs = <<>>
    \/ ~FromAgent(Last(msgs), a)
    \/ ~ExactApproval(Last(msgs).content)

\* C1: once an evaluation has returned a StopMessage, every later evaluation
\* without a reset() returns no stop and leaves the instance terminated, so at
\* most one StopMessage is returned between two resets.
C1_Latch ==
    [][ /\ (lgtm.terminated /\ op' = "call") => (result' = NoStop /\ lgtm'.terminated)
        /\ (lgtm.terminated /\ op' # "reset") => lgtm'.terminated
        /\ (IsStop(result') /\ op' = "call") => lgtm'.terminated
        /\ stops' <= 1 ]_vars

\* an approval from the watched agent was evaluated after the stop and ignored
C1_Witness ==
    /\ op = "call" /\ stops = 1 /\ result = NoStop /\ lgtm.terminated
    /\ messages # <<>>
    /\ FromAgent(Last(messages), lgtm.agent_name)
    /\ ExactApproval(Last(messages).content)

\* C2: on a non-terminated instance, a last message from the watched agent
\* yields a StopMessage (naming the agent, source "LGTMTermination") and sets
\* terminated exactly when its content is text equal to LGTM after trimming
\* and ignoring case; the listed examples fall on the stated sides.
C2_ExactMatch ==
    [][ ( /\ op' = "call"
          /\ ~lgtm.terminated
          /\ messages' # <<>>
          /\ FromAgent(Last(messages'), lgtm.agent_name) )
        => /\ IF ExactApproval(Last(messages').content)
              THEN /\ result' = StopMessage("LGTM received from " \o lgtm.agent_name \o ".",
                                            "LGTMTermination")
                   /\ lgtm'.terminated
              ELSE /\ result' = NoStop
                   /\ ~lgtm'.terminated
           /\ Last(messages').content \in { Str("LGTM"), Str("lgtm"), Str("  LgTm  ") }
                 => IsStop(result')
           /\ Last(messages').content \in
                 { Str("LGTM!"), Str("lgtm now"), Str("  lgtm  extra"),
                   Str("LGTM please"), Str("Looks good, LGTM") }
                 => ~IsStop(result') ]_vars

\* a padded mixed-case approval has just stopped the conversation
C2_Witness ==
    /\ op = "call" /\ IsStop(result) /\ lgtm.terminated
    /\ Last(messages).content = Str("  LgTm  ")
    /\ result.source = "LGTMTermination"

\* C3: an evaluation of an empty transcript, or of one whose last message is
\* not from the watched agent or is not an exact textual LGTM, returns no stop
\* and leaves the instance as it was, whatever precedes the last message.
C3_NonTriggeringFrame ==
    [][ (op' = "call" /\ NonTriggering(messages', lgtm.agent_name))
            => (result' = NoStop /\ lgtm' = lgtm) ]_vars

\* an approval from the watched agent earlier in the transcript did not trigger
C3_Witness ==
    /\ op = "call" /\ result = NoStop /\ ~lgtm.terminated /\ stops = 0
    /\ Len(messages) >= 2
    /\ FromAgent(messages[1], lgtm.agent_name)
    /\ ExactApproval(messages[1].content)
    /\ NonTriggering(messages, lgtm.agent_name)

\* C4: after reset() the instance equals one constructed anew with the same
\* agent name, and answers every later evaluation as that one does; reset()
\* leaves terminated false whether or not it was set.
C4_ResetEqualsFresh ==
    /\ resetWhen # "never" => (lgtm = twin /\ (op = "call" => result = twinResult))
    /\ op = "reset" => (lgtm = LGTMInit(lgtm.agent_name) /\ ~lgtm.terminated)

\* reset() on a terminated instance, then an approval stops the conversation again
C4_Witness ==
    /\ resetWhen = "set" /\ op = "call" /\ IsStop(result) /\ IsStop(twinResult)

-----------------------------------------------------------------------------
(* The stream reducer's contract                                           *)

\* the consumed events that the loop recorded as agent messages, in order
Recorded == SelectSeq(consumed, IsAgentMessageWithContent)

\* the source a message is attributed to: its source, else its name
AttributedTo(m) ==
    IF HasAttr(m.source) THEN m.source
    ELSE IF HasAttr(m.name) THEN m.name ELSE Str("Unknown")

\* a result event was consumed
ResultSeen == \E i \in 1..Len(consumed) : HasAttr(consumed[i].stop_reason)

\* the consumed result event says the approval path fired
ApprovalReason ==
    \E i \in 1..Len(consumed) :
        /\ IsStr(consumed[i].stop_reason)
        /\ Contains("LGTM received", consumed[i].stop_reason.text)

ApprovalScenario ==
    << TextMessage("dev_agent", "draft v1"), TextMessage("review_agent", "fix X"),
       TextMessage("dev_agent", "draft v2"), TextMessage("review_agent", " LGTM "),
       TaskResult(Str("LGTM received from review_agent.")) >>

CeilingScenario ==
    << TextMessage("dev_agent", "draft v1"), TaskResult(Str("MaxMessageTermination")) >>

C7_NonApprovalFinal ==
    (pc = "done" /\ Len(Recorded) >= 1 /\ (~ApprovalReason \/ Len(Recorded) = 1))
    => LET n == Len(Recorded)
       IN  /\ returned.final_text = PyStr(Recorded[n].content)
           /\ returned.final_source = AttributedTo(Recorded[n])
           /\ consumed = CeilingScenario
                 => (returned.final_source = Str("dev_agent")
                     /\ returned.final_text = "draft v1")

\* several agent messages, no approval: the last one is the final answer
C7_Witness ==
    /\ pc = "done" /\ ~ApprovalReason /\ Len(Recorded) >= 2
    /\ Recorded[Len(Recorded)] = TextMessage("dev_agent", "draft v2")
    /\ returned.final_text = "draft v2"
    /\ returned.stop_reason = "MaxMessageTermination"

\* C8: when no agent message was recorded, the final text is the fixed
\* placeholder and the final source is "System" if a result event was
\* consumed and "Unknown" otherwise.
C8_Placeholder ==
    (pc = "done" /\ Len(Recorded) = 0)
    => /\ returned.final_text = "[No agent response recorded before termination]"
       /\ returned.final_source = IF ResultSeen THEN Str("System") ELSE Str("Unknown")

\* events were consumed, none of them an agent message, and no result came
C8_Witness ==
    /\ pc = "done" /\ Len(Recorded) = 0 /\ Len(consumed) >= 2 /\ ~ResultSeen
    /\ returned.final_source = Str("Unknown")

\* an event the two slots must not admit
NotAdmissible(m) ==
    /\ ~HasAttr(m.stop_reason)
    /\ \/ m.content.tag \in {"absent", "none", "obj"}
       \/ GetAttr(m.source, GetAttr(m.name, Str("System")))
              \in { Str("user"), Str("System"), Str("UserProxyAgent") }

\* a slot is empty or holds a textual message of an agent
SlotHoldsTextualAgentMessage(m) == m = NoMessage \/ ~NotAdmissible(m)

\* C9: an event with non-textual or absent content, from a non-agent source,
\* or with neither content nor stop reason is logged and leaves both slots as
\* they were, so neither slot ever holds such an event.
C9_SlotAdmission ==
    [][ /\ (pc = "streaming" /\ consumed' # consumed /\ NotAdmissible(Last(consumed')))
           => /\ last_agent_message_object' = last_agent_message_object
              /\ previous_agent_message_object' = previous_agent_message_object
              /\ Len(conversation_log_entries') = Len(conversation_log_entries) + 1
        /\ SlotHoldsTextualAgentMessage(last_agent_message_object')
        /\ SlotHoldsTextualAgentMessage(previous_agent_message_object') ]_vars

\* C10: the log has exactly one line per consumed event, in the order the
\* events came, whatever their shape; the returned log is that log.
C10_LogFidelity ==
    /\ Len(conversation_log_entries) = Len(consumed)
    /\ \A i \in 1..Len(consumed) :
          /\ conversation_log_entries[i] # ""
          /\ conversation_log_entries[i] = LogEntry(consumed[i])
    /\ pc = "done" => returned.log = conversation_log_entries

\* a run with a None content, a non-textual content, a shapeless event and a result
C10_Witness ==
    /\ pc = "done" /\ Len(returned.log) = Len(consumed) /\ ResultSeen
    /\ \E i \in 1..Len(consumed) : consumed[i].content = None
    /\ \E i \in 1..Len(consumed) : consumed[i].content.tag = "obj"
    /\ \E i \in 1..Len(consumed) :
          ~HasAttr(consumed[i].content) /\ ~HasAttr(consumed[i].stop_reason)

-----------------------------------------------------------------------------
(* The combined termination condition                                      *)

\* the message is an approval from the reviewer
ReviewerApproval(m) == FromAgent(m, "review_agent") /\ ExactApproval(m.content)

\* C5: fed one message at a time, LGTMTermination("review_agent") | the
\* 20-message condition stops at a message exactly when that message is an
\* approval from the reviewer (the LGTM predicate stops) or is the 20th (the
\* count condition stops), so at the first such message; no conversation
\* passes 20 messages.
C5_OrComposition ==
    [][ /\ (team_pc \in {"ready", "running"} /\ fed' = fed + 1)
           => /\ IsStop(sub_results'[1]) <=> ReviewerApproval(last_fed')
              /\ IsStop(sub_results'[2]) <=> (fed' = 20)
              /\ IsStop(team_stop') <=> (ReviewerApproval(last_fed') \/ fed' = 20)
              /\ (team_pc' = "stopped") <=> IsStop(team_stop')
              /\ (ReviewerApproval(last_fed') /\ fed' < 20)
                    => team_stop'.source = "LGTMTermination"
              /\ (~ReviewerApproval(last_fed') /\ fed' = 20)
                    => team_stop'.source = "MaxMessageTermination"
        /\ fed' <= 20
        /\ team_pc' = "running" => fed' < 20 ]_vars

\* twenty messages without an approval: the count condition stopped the run
C5_Witness ==
    /\ team_pc = "stopped" /\ fed = 20
    /\ ~IsStop(sub_results[1]) /\ IsStop(sub_results[2])
    /\ team_stop.source = "MaxMessageTermination"

-----------------------------------------------------------------------------
(* The page: the run handler around run_autogen_stream, run after run.     *)
(* The stream of a run is arbitrary here.                                  *)

\* st.session_state as a record
Session ==
    [final_response_text   |-> final_response_text,
     stop_reason_text      |-> stop_reason_text,
     final_source_text     |-> final_source_text,
     conversation_log_list |-> conversation_log_list,
     last_run_error        |-> last_run_error]

\* the session is assigned the values of the record
SessionBecomes(st) ==
    /\ final_response_text' = st.final_response_text
    /\ stop_reason_text' = st.stop_reason_text
    /\ final_source_text' = st.final_source_text
    /\ conversation_log_list' = st.conversation_log_list
    /\ last_run_error' = st.last_run_error

ClearSession_KeepsError(st) ==
    [st EXCEPT !.conversation_log_list = <<>>,
               !.final_response_text = "",
               !.stop_reason_text = "",
               !.final_source_text = Str("")]

\* lines 163-167
ClearSession(st) ==
    [st EXCEPT !.conversation_log_list = <<>>,
               !.final_response_text = "",
               !.stop_reason_text = "",
               !.final_source_text = Str(""),
               !.last_run_error = None]

\* lines 173-176, given the tuple run_autogen_stream returned
StoreResult(st, ret) ==
    [st EXCEPT !.conversation_log_list = ret.log,
               !.final_response_text = ret.final_text,
               !.stop_reason_text = ret.stop_reason,
               !.final_source_text = ret.final_source]

\* an exception: its class name and its text
Errors == { <<"ConnectionError", "backend unreachable">>, <<"ValueError", "">> }

OnError_Suppressed(st, e) == st

\* lines 178-180
OnError(st, e) ==
    [st EXCEPT !.last_run_error =
        Str("An error occurred during the AutoGen run: " \o e[1] \o " - " \o e[2])]

\* what the Final Result tab shows under the output area (lines 47-53)
FinalResultTab(st) ==
    IF Truthy(st.final_source_text) THEN "caption"
    ELSE IF Truthy(st.last_run_error) THEN "error"
    ELSE IF st.final_response_text = "" THEN "prompt"
    ELSE "nothing"

\* what the Conversation Log tab shows when Show Logs is ticked (lines 58-66)
ConversationLogTab(st) ==
    IF st.conversation_log_list # <<>>
    THEN [notice |-> "entries", entries |-> st.conversation_log_list]
    ELSE IF Truthy(st.last_run_error)
    THEN [notice |-> "Run failed, log incomplete.", entries |-> <<>>]
    ELSE [notice |-> "No log available.", entries |-> <<>>]

\* the events a run's stream may yield
SessionEvents ==
    { TextMessage("dev_agent", "draft v1"),
      TextMessage("review_agent", " LGTM "),
      TextMessage("user", "task"),
      Event("object", Absent, Absent, Absent, Absent),
      TaskResult(Str("LGTM received from review_agent.")),
      TaskResult(Str("")) }

SessInit == SessIdle /\ Started /\ TeamConstructed /\ PredIdle /\ RedIdle

\* Run Task is pressed (line 151): the session is cleared (lines 163-167) and
\* run_autogen_stream begins (lines 72-80)
RunTask ==
    /\ AUTOGEN_SETUP_AVAILABLE
    /\ team_pc # "none"
    /\ run_state # "running"
    /\ runs < MaxRuns
    /\ SessionBecomes(ClearSession(Session))
    /\ run_state' = "running"
    /\ pc' = "streaming"
    /\ consumed' = <<>>
    /\ conversation_log_entries' = <<>>
    /\ last_agent_message_object' = NoMessage
    /\ previous_agent_message_object' = NoMessage
    /\ stop_reason' = "Unknown"
    /\ is_task_result' = FALSE
    /\ returned' = NoReturn
    /\ ResetTeam
    /\ UNCHANGED <<prior, outcomes>>
    /\ UNCHANGED <<predVars, startVars>>

\* the stream raises (line 82); nothing in run_autogen_stream catches it, so
\* the handler's except clause runs (lines 178-186)
StreamRaises ==
    /\ run_state = "running"
    /\ pc = "streaming"
    /\ \E e \in Errors : SessionBecomes(OnError(Session, e))
    /\ pc' = "raised"
    /\ run_state' = "failed"
    /\ outcomes' = Append(outcomes, "failed")
    /\ UNCHANGED <<consumed, conversation_log_entries, last_agent_message_object,
                   previous_agent_message_object, stop_reason, is_task_result, returned>>
    /\ UNCHANGED <<predVars, teamVars, startVars>>

\* run_autogen_stream returned: its tuple is stored (lines 169-176, 186)
RunReturns ==
    /\ run_state = "running"
    /\ pc = "done"
    /\ SessionBecomes(StoreResult(Session, returned))
    /\ run_state' = "completed"
    /\ outcomes' = Append(outcomes, "completed")
    /\ UNCHANGED <<redVars, predVars, teamVars, startVars>>

SessNext ==
    \/ RunTask
    \/ \E message \in SessionEvents : Consume(message)
    \/ StreamEnd
    \/ Reduce
    \/ StreamRaises
    \/ RunReturns

SpecSession == SessInit /\ [][SessNext]_vars

-----------------------------------------------------------------------------
(* Start-up: autogen_setup is imported, then the page runs                 *)

AgentEntries ==
    { <<ValidEntry>>,
      <<>>,
      << AgentEntry(<<>>, <<"https://api.example.com/v1">>, <<30>>, <<"info">>) >>,
      << AgentEntry(<<"gpt-4o">>, <<"not a url">>, <<30>>, <<"info">>) >>,
      << AgentEntry(<<"gpt-4o">>, <<"http://localhost:8000">>, <<0>>, <<"info">>) >>,
      << AgentEntry(<<"gpt-4o">>, <<"https://api.example.com/v1">>, <<30>>, <<>>) >> }

ConfigFiles ==
    { ConfigFile(k, <<>>, <<>>) : k \in {"missing", "unreadable", "malformed", "empty", "scalar"} }
    \cup { ConfigFile("mapping", d, r) : d \in AgentEntries, r \in AgentEntries }

KeyValues == { Absent, Str(""), Str("sk-key") }

Environs == [ {"DEV_AGENT_API_KEY", "REVIEW_AGENT_API_KEY"} -> KeyValues ]

\* before autogen_setup has run there is no team
TeamAbsent ==
    /\ team_pc = "none"
    /\ runs = 0
    /\ text_termination = TextTermination
    /\ turn = 1
    /\ fed = 0
    /\ last_fed = NoFed
    /\ sub_results = <<NoStop, NoStop>>
    /\ team_stop = NoStop
    /\ prior = <<>>

StartInit ==
    /\ setup_pc = "load_config"
    /\ config_file \in ConfigFiles
    /\ environ \in Environs
    /\ client_raises \in SUBSET {"dev_agent", "review_agent"}
    /\ validated_configs = NoConfigs
    /\ stdout = <<>>
    /\ exit_status = -1
    /\ AUTOGEN_SETUP_AVAILABLE = FALSE
    /\ TeamAbsent /\ SessIdle /\ PredIdle /\ RedIdle

\* a call of start-up has returned or has exited
AfterCall(r, next) ==
    IF r.ok
    THEN /\ setup_pc' = next
         /\ UNCHANGED <<stdout, exit_status>>
    ELSE /\ setup_pc' = "exited"
         /\ stdout' = stdout \o r.printed
         /\ exit_status' = r.status

\* validated_configs = load_config(CONFIG_FILE) (line 125)
LoadConfig ==
    /\ setup_pc = "load_config"
    /\ LET r == load_config(CONFIG_FILE, config_file)
       IN  /\ AfterCall(r, "client_dev")
           /\ validated_configs' = r.value
    /\ UNCHANGED <<config_file, environ, client_raises, AUTOGEN_SETUP_AVAILABLE>>
    /\ UNCHANGED <<predVars, redVars, teamVars, sessVars>>

\* model_client_... = make_model_client_pydantic(agent_key, ...) (lines 127-128)
MakeClient(agent_key, here, next) ==
    /\ setup_pc = here
    /\ AfterCall(make_model_client_pydantic(agent_key, environ, agent_key \in client_raises),
                 next)
    /\ UNCHANGED <<config_file, environ, client_raises, validated_configs,
                   AUTOGEN_SETUP_AVAILABLE>>
    /\ UNCHANGED <<predVars, redVars, teamVars, sessVars>>

\* the agents, text_termination and the team are constructed (lines 130-162)
ConstructTeam ==
    /\ setup_pc = "construct"
    /\ setup_pc' = "constructed"
    /\ team_pc' = "idle"
    /\ text_termination' = TextTermination
    /\ UNCHANGED <<runs, turn, fed, last_fed, sub_results, team_stop, prior>>
    /\ UNCHANGED <<config_file, environ, client_raises, validated_configs, stdout,
                   exit_status, AUTOGEN_SETUP_AVAILABLE>>
    /\ UNCHANGED <<predVars, redVars, sessVars>>

\* from autogen_setup import team as ag_team (streamlit_app.py lines 17-23)
ImportTeam ==
    /\ setup_pc = "constructed"
    /\ setup_pc' = "imported"
    /\ AUTOGEN_SETUP_AVAILABLE' = (team_pc # "none")
    /\ UNCHANGED <<config_file, environ, client_raises, validated_configs, stdout,
                   exit_status>>
    /\ UNCHANGED <<predVars, redVars, teamVars, sessVars>>

StartNext ==
    \/ LoadConfig
    \/ MakeClient("dev_agent", "client_dev", "client_review")
    \/ MakeClient("review_agent", "client_review", "construct")
    \/ ConstructTeam
    \/ ImportTeam
    \/ SessNext

SpecStartup == StartInit /\ [][StartNext]_vars

-----------------------------------------------------------------------------
(* The session's contract                                                  *)

Placeholder == "[No agent response recorded before termination]"

\* the run that just ended produced no agent output
NoAgentOutput ==
    /\ final_response_text = Placeholder
    /\ final_source_text \in { Str("System"), Str("Unknown") }

\* C11: an error raised while the stream is consumed reaches the handler, which
\* records last_run_error; the page can start another run afterwards.  After a
\* run, last_run_error is set exactly when the run raised; a completed run,
\* also one with only the placeholder to show, is never shown as failed, and a
\* failed run is never shown as completed.
C11_FailureDistinct ==
    /\ [](/\ run_state \in {"completed", "failed"}
             => ((run_state = "failed") <=> Truthy(last_run_error))
          /\ run_state = "completed"
             => (last_run_error = None /\ FinalResultTab(Session) # "error")
          /\ (run_state = "completed" /\ NoAgentOutput)
             => FinalResultTab(Session) = "caption"
          /\ run_state = "failed"
             => /\ FinalResultTab(Session) = "error"
                /\ ~Truthy(final_source_text)
                /\ final_response_text = ""
          /\ (run_state = "failed" /\ runs < MaxRuns) => ENABLED RunTask)
    /\ [][ /\ (pc = "streaming" /\ pc' = "raised")
              => (run_state' = "failed" /\ Truthy(last_run_error') /\ returned' = NoReturn)
           /\ (run_state = "running" /\ run_state' = "completed")
              => (pc = "done" /\ last_run_error' = None)
           /\ (run_state = "running" /\ run_state' = "failed")
              => pc' = "raised" ]_vars

\* a run failed, and the next one completed with nothing but the placeholder
C11_Witness ==
    /\ run_state = "completed" /\ outcomes = <<"failed", "completed">>
    /\ NoAgentOutput /\ final_source_text = Str("System")
    /\ last_run_error = None

\* C12: when the stream raises after k events were consumed and logged, the
\* session's conversation log holds those k entries.
C12_PartialLogRetained ==
    run_state = "failed" => conversation_log_list = conversation_log_entries

\* C19: a run begins by clearing the stored log, final text, final source,
\* stop reason and error, so the session shows the latest run only: after a
\* failed run the final text, source and stop reason are empty, and after a
\* completed run last_run_error is None and the stored values are those the run
\* returned.
C19_NoStaleSession ==
    [][ /\ (run_state # "running" /\ run_state' = "running")
           => /\ final_response_text' = "" /\ stop_reason_text' = ""
              /\ final_source_text' = Str("") /\ conversation_log_list' = <<>>
              /\ last_run_error' = None
        /\ run_state' = "failed"
           => /\ final_response_text' = "" /\ stop_reason_text' = ""
              /\ final_source_text' = Str("")
        /\ run_state' = "completed"
           => /\ last_run_error' = None
              /\ final_response_text' = returned'.final_text
              /\ final_source_text' = returned'.final_source
              /\ stop_reason_text' = returned'.stop_reason
              /\ conversation_log_list' = returned'.log ]_vars

\* a completed run, then a failed one, then a completed one
C19_Witness ==
    /\ outcomes = <<"completed", "failed", "completed">>
    /\ run_state = "completed" /\ last_run_error = None
    /\ final_response_text = "draft v1"

-----------------------------------------------------------------------------
(* Runs on the one team, one after another                                 *)

\* C13: every run resets the team before its first event is produced, so
\* whatever way the earlier runs ended (by approval, at the ceiling, or by a
\* failure) the predicate starts the run with terminated false and the count
\* at zero, and the first reviewer approval of the run stops it.
C13_NoCarryOver ==
    [][ /\ (team_pc \in {"idle", "stopped", "failed"} /\ team_pc' # team_pc)
           => team_pc' = "ready"
        /\ team_pc' = "ready"
           => /\ ~text_termination'.lgtm.terminated
              /\ text_termination' = TextTermination
        /\ (team_pc = "ready" /\ fed' = 1)
           => ~text_termination.lgtm.terminated
        /\ (fed' = fed + 1 /\ ReviewerApproval(last_fed'))
           => /\ IsStop(team_stop')
              /\ team_stop'.source = "LGTMTermination"
              /\ team_pc' = "stopped" ]_vars

\* a run stopped by approval, a run that failed, and a third run stopped by
\* approval again
C13_Witness ==
    /\ prior = <<"approval", "failed">>
    /\ runs = 3 /\ team_pc = "stopped"
    /\ IsStop(sub_results[1]) /\ team_stop.source = "LGTMTermination"

-----------------------------------------------------------------------------
(* Start-up's contract                                                     *)

\* an agent's entry satisfies the schema
EntryValid(e) ==
    /\ Len(e.model) = 1
    /\ Len(e.base_url) = 1
    /\ \E scheme \in {"http://", "https://"} :
          /\ Len(e.base_url[1]) > Len(scheme)
          /\ SubSeq(e.base_url[1], 1, Len(scheme)) = scheme
    /\ Len(e.timeout) = 1 /\ e.timeout[1] >= 1
    /\ Len(e.model_info) = 1

\* the configuration file is missing, empty, malformed or schema-invalid
ConfigFault ==
    \/ config_file.kind \in {"missing", "empty", "malformed"}
    \/ /\ config_file.kind = "mapping"
       /\ \E a \in { config_file.dev_agent, config_file.review_agent } :
             a = <<>> \/ ~EntryValid(a[1])

\* the API-key variable of an agent is unset
KeyFault ==
    \E name \in {"DEV_AGENT_API_KEY", "REVIEW_AGENT_API_KEY"} : environ[name] = Absent

\* building a model client raises
ClientFault == client_raises # {}

\* C14: when the configuration file is missing, empty, malformed or
\* schema-invalid, or an agent's API-key variable is unset, or building a model
\* client raises, start-up never gets to construct the team: it can only end
\* in the exited state, with a diagnostic printed and exit status 1, and no
\* run is ever started.
C14_StartupErrorsFirst ==
    /\ [](/\ (ConfigFault \/ KeyFault \/ ClientFault)
             => /\ setup_pc \in {"load_config", "client_dev", "client_review", "exited"}
                /\ team_pc = "none"
                /\ ~AUTOGEN_SETUP_AVAILABLE
                /\ run_state = "none" /\ runs = 0 /\ pc = "idle"
                /\ ~ENABLED RunTask
          /\ setup_pc = "exited"
             => /\ exit_status = 1
                /\ Len(stdout) >= 1
                /\ team_pc = "none" /\ run_state = "none" /\ runs = 0
                /\ ~ENABLED StartNext
          /\ setup_pc # "exited" => (exit_status = -1 /\ stdout = <<>>))
    /\ [][ /\ (setup_pc = "load_config" /\ ConfigFault) => setup_pc' = "exited"
           /\ (setup_pc = "client_dev"
                 /\ (environ["DEV_AGENT_API_KEY"] = Absent \/ "dev_agent" \in client_raises))
              => setup_pc' = "exited"
           /\ (setup_pc = "client_review"
                 /\ (environ["REVIEW_AGENT_API_KEY"] = Absent
                     \/ "review_agent" \in client_raises))
              => setup_pc' = "exited" ]_vars

\* the file is valid and the developer's client was built; the reviewer's key
\* is unset, and start-up exited on it
C14_Witness ==
    /\ setup_pc = "exited" /\ exit_status = 1
    /\ ~ConfigFault /\ config_file.kind = "mapping"
    /\ environ["DEV_AGENT_API_KEY"] = Str("sk-key")
    /\ environ["REVIEW_AGENT_API_KEY"] = Absent
    /\ client_raises = {}
    /\ stdout = << "Error: API Key for 'review_agent' not found. Set the environment variable 'REVIEW_AGENT_API_KEY'." >>
    /\ team_pc = "none"

-----------------------------------------------------------------------------
(* The course of one reduction                                             *)

\* the stop reason of the result event consumed, Absent when none was
TerminalReason == IF ResultSeen THEN Last(consumed).stop_reason ELSE Absent

\* C15: once a terminal event is consumed no further event is: the consumed
\* events, the log, the two slots and stop_reason stay as they are, a terminal
\* event is the last one consumed, and the invocation only moves from
\* streaming to reducing to done.
C15_TerminalEndsStreaming ==
    /\ [](/\ \A i \in 1..(Len(consumed) - 1) : ~HasAttr(consumed[i].stop_reason)
          /\ is_task_result => pc # "streaming"
          /\ pc \in {"streaming", "reducing", "done"})
    /\ [][ /\ is_task_result
              => /\ consumed' = consumed
                 /\ conversation_log_entries' = conversation_log_entries
                 /\ last_agent_message_object' = last_agent_message_object
                 /\ previous_agent_message_object' = previous_agent_message_object
                 /\ stop_reason' = stop_reason
           /\ (consumed' # consumed /\ HasAttr(Last(consumed').stop_reason))
              => pc' = "reducing"
           /\ pc = "streaming" => pc' \in {"streaming", "reducing"}
           /\ pc = "reducing" => pc' \in {"reducing", "done"}
           /\ pc = "done" => pc' = "done" ]_vars

\* two messages and a result were consumed, and the invocation is done
C15_Witness ==
    /\ pc = "done" /\ is_task_result
    /\ Len(consumed) = 3 /\ HasAttr(consumed[3].stop_reason)
    /\ Len(returned.log) = 3

\* C16: every invocation whose stream is finite and does not raise reaches
\* done and has then returned its log, final text, final source and stop
\* reason, whether or not a terminal event came.
C16_ReductionCompletes ==
    /\ <>[](pc = "done" /\ returned # NoReturn)
    /\ [](pc = "done" => /\ returned.log = conversation_log_entries
                         /\ returned.stop_reason = stop_reason
                         /\ returned.final_source # Absent)

\* done after a stream that held messages and no terminal event
C16_Witness ==
    /\ pc = "done" /\ ~is_task_result /\ ~ResultSeen
    /\ Len(consumed) >= 2 /\ returned # NoReturn
    /\ returned.stop_reason = "Unknown"

\* C17: throughout the loop the current slot holds the agent message recorded
\* last and the previous slot the one recorded just before it; the previous
\* slot is populated only if the current one is, and exactly when two or more
\* agent messages have been recorded.
C17_TwoSlotBuffer ==
    LET n == Len(Recorded)
    IN  /\ last_agent_message_object = IF n >= 1 THEN Recorded[n] ELSE NoMessage
        /\ previous_agent_message_object = IF n >= 2 THEN Recorded[n - 1] ELSE NoMessage
        /\ previous_agent_message_object # NoMessage => last_agent_message_object # NoMessage
        /\ (previous_agent_message_object # NoMessage) <=> (n >= 2)
        /\ (last_agent_message_object # NoMessage) <=> (n >= 1)

\* three agent messages recorded with another event among them, still streaming
C17_Witness ==
    /\ pc = "streaming" /\ Len(Recorded) = 3 /\ Len(consumed) = 4
    /\ ~IsAgentMessageWithContent(consumed[3])
    /\ last_agent_message_object = consumed[4]
    /\ previous_agent_message_object = consumed[2]
    /\ consumed[4] # consumed[2]

\* C18: the returned stop_reason is the terminal event's when that is a
\* non-empty string, "Completed" when a terminal event came with an empty or
\* None stop_reason, and "Unknown" when none came; in the last two cases the
\* final answer is the agent message recorded last, not the one before it.
C18_ReturnedStopReason ==
    pc = "done"
    => LET n == Len(Recorded)
       IN  /\ (IsStr(TerminalReason) /\ TerminalReason.text # "")
              => returned.stop_reason = TerminalReason.text
           /\ (ResultSeen /\ TerminalReason \in { Str(""), None })
              => returned.stop_reason = "Completed"
           /\ ~ResultSeen => returned.stop_reason = "Unknown"
           /\ ((~ResultSeen \/ TerminalReason \in { Str(""), None }) /\ n >= 1)
              => /\ returned.final_text = PyStr(Recorded[n].content)
                 /\ returned.final_source = AttributedTo(Recorded[n])

\* the reviewer's approval came last and the result carried None: "Completed",
\* and the approval itself is the final answer
C18_Witness ==
    /\ pc = "done" /\ ResultSeen /\ TerminalReason = None
    /\ returned.stop_reason = "Completed"
    /\ Len(Recorded) >= 2
    /\ returned.final_text = " LGTM "
    /\ returned.final_source = Str("review_agent")

=============================================================================
